---------------------------- MODULE Spec2Model ----------------------------
(***************************************************************************)
(* hopin-backend: the ride search and ranking engine, its analytics loop   *)
(* and the ride-request handlers, as a state machine over the backing      *)
(* store.                                                                  *)
(*                                                                         *)
(* Conventions.                                                            *)
(*   - A nullable value is <<>> (None / key absent) or <<v>>.              *)
(*   - A text is a sequence of one-character strings.                      *)
(*   - Time is counted in ticks of 36 minutes (0.6 h), the unit in which   *)
(*     both branches of the recency sub-score are whole thousandths.       *)
(*   - Scores are fixed point: thousandths before round(..., 2),           *)
(*     hundredths after it.                                                *)
(*   - A table is a set of rows carrying the primary key `id`; the store   *)
(*     declares no other uniqueness on the tables modelled here.           *)
(*   - A request handler that reads the store, computes in Python and      *)
(*     commits later is split at its store accesses: one action per        *)
(*     access, the handler's position kept in pc.                          *)
(***************************************************************************)
EXTENDS Integers, Sequences, FiniteSets, TLC

\* The fields of the model's records (columns, dictionary keys, locals),
\* each with the name it has in the source, in the order the records list
\* them.
FieldNames ==
    [ id |-> "id", driver_rating |-> "driver_rating",
      total_rides |-> "total_rides", inf |-> "inf", km |-> "km",
      raised |-> "raised", list |-> "list",
      canonical_name |-> "canonical_name", alias_name |-> "alias_name",
      lat |-> "lat", lng |-> "lng", popularity |-> "popularity",
      from |-> "from", to |-> "to", from_lat |-> "from_lat",
      from_lng |-> "from_lng", date |-> "date",
      max_distance |-> "max_distance",
      max_distance_km |-> "max_distance_km", max_price |-> "max_price",
      min_seats |-> "min_seats", ride |-> "ride", op |-> "op", request_id |-> "request_id",
      user_id |-> "user_id", from_location |-> "from_location",
      to_location |-> "to_location", search_count |-> "search_count",
      results_count |-> "results_count",
      last_searched |-> "last_searched", ride_count |-> "ride_count",
      avg_price |-> "avg_price", rider_id |-> "rider_id",
      ride_id |-> "ride_id", driver_id |-> "driver_id",
      start_location |-> "start_location",
      end_location |-> "end_location", start_lat |-> "start_lat",
      start_lng |-> "start_lng", departure_time |-> "departure_time",
      available_seats |-> "available_seats",
      price_per_seat |-> "price_per_seat", status |-> "status",
      my_request_status |-> "my_request_status",
      is_own_ride |-> "is_own_ride", can_request |-> "can_request",
      popularity_score |-> "popularity_score",
      relevance_score |-> "relevance_score", distance |-> "distance",
      distance_km |-> "distance_km", updated_at |-> "updated_at",
      rides |-> "rides", user |-> "user", data |-> "data",
      call |-> "call", updated |-> "updated", sender_id |-> "sender_id",
      content |-> "content", message |-> "message",
      use_driver_pickup |-> "use_driver_pickup",
      rider_pickup_location |-> "rider_pickup_location", done |-> "done",
      search |-> "search", offer |-> "offer", request |-> "request", requests |-> "requests",
      stats |-> "stats", cands |-> "cands", sort_by |-> "sort_by",
      limit |-> "limit", use_full_text |-> "use_full_text",
      resolve_aliases |-> "resolve_aliases", sp |-> "sp",
      rides_with_scores |-> "rides_with_scores", results |-> "results",
      history_read |-> "history_read", history |-> "history",
      route_read |-> "route_read", route |-> "route",
      log_result |-> "log_result", text |-> "text",
      aliases |-> "aliases", lat1 |-> "lat1", lon1 |-> "lon1",
      lat2 |-> "lat2", lon2 |-> "lon2",
      departure_date |-> "departure_date",
      competition_level |-> "competition_level",
      competing_rides |-> "competing_rides" ]

VARIABLES
    now,            \* the clock datetime.utcnow() reads, in ticks
    rides,          \* table rides, in insertion order
    rideRequests,   \* table ride_requests
    messages,       \* table messages
    searchHistory,  \* table search_history
    popularRoutes,  \* table popular_routes
    nextId,         \* source of fresh primary keys (uuid4)
    pc,             \* per worker: position inside the handler it runs
    loc,            \* per worker: the handler's local variables and ORM session
    resp,           \* per worker: the last HTTP response it returned
    logged,         \* per (user, from, to): log_search_analytics calls that returned True
    calls,          \* per operation: how many times it was started
    sortIn,         \* sort_rides_by_criteria: the arguments of the call
    sortOut         \* sort_rides_by_criteria: its result

vars == <<now, rides, rideRequests, messages, searchHistory, popularRoutes,
          nextId, pc, loc, resp, logged, calls, sortIn, sortOut>>

storeVars == <<rides, rideRequests, messages, searchHistory, popularRoutes, nextId>>
sortVars == <<sortIn, sortOut>>

---------------------------------------------------------------------------
(* Bounds of the model.                                                    *)

NumProcs == 2
MaxSearches == 4
MaxRequests == 2
MaxOffers == 2
MaxStatsCalls == 1
MaxNow == 2
MaxSortLen == 3
MaxFilterSearches == 1
MaxResolveCalls == 2
MaxCompetitors == 6

---------------------------------------------------------------------------
(* Values.                                                                 *)

None == <<>>
Some(v) == <<v>>
IsNone(x) == x = <<>>
Val(x) == x[1]

\* Python truthiness of a nullable number: None and 0 are falsy.
Truthy(x) == x # <<>> /\ x[1] # 0

Min(a, b) == IF a <= b THEN a ELSE b
Max(a, b) == IF a >= b THEN a ELSE b
Abs(a) == IF a >= 0 THEN a ELSE -a

Procs == 1..NumProcs
Users == {"u1", "u2"}

Space == " "
LocX == <<"X">>
LocY == <<"Y">>

\* str.strip(): leading and trailing whitespace removed.
RECURSIVE LStrip(_)
LStrip(s) == IF s # <<>> /\ Head(s) = Space THEN LStrip(Tail(s)) ELSE s

RECURSIVE RStrip(_)
RStrip(s) ==
    IF s # <<>> /\ s[Len(s)] = Space THEN RStrip(SubSeq(s, 1, Len(s) - 1)) ELSE s

\* A strip() that removed nothing.
StripIdentity(s) == s

Strip(s) == RStrip(LStrip(s))

\* data.get(key, ""): the value of a key, "" when the key is absent.
GetText(field) == IF field = <<>> THEN <<>> ELSE field[1]

---------------------------------------------------------------------------
(* Profiles: the rows of table profiles the handlers read. driver_rating   *)
(* is in tenths of a star and nullable; no handler writes it, so a profile *)
(* created by the program keeps the column default 0.0.                    *)

Profile(u) ==
    IF u = "u1" THEN [id |-> "u1", driver_rating |-> Some(45), total_rides |-> 3]
                ELSE [id |-> "u2", driver_rating |-> Some(0), total_rides |-> 0]

---------------------------------------------------------------------------
(* Geospatial utilities. Coordinates of the model lie on one meridian:     *)
(* a longitude is None, 0 or the one value Lng, and latitudes are counted  *)
(* in steps of KmPerLatUnit km, so that the haversine formula with dlon=0  *)
(* gives r * |dlat| = KmPerLatUnit * |lat1 - lat2| km exactly.             *)

KmPerLatUnit == 10
Lng == 1

Inf == [inf |-> TRUE, km |-> 0]
Km(d) == [inf |-> FALSE, km |-> d]

\* not all([lat1, lon1, lat2, lon2]) -> inf: a coordinate that is None or 0
\* counts as missing.
haversine_distance(lat1, lon1, lat2, lon2) ==
    IF ~(Truthy(lat1) /\ Truthy(lon1) /\ Truthy(lat2) /\ Truthy(lon2))
    THEN Inf
    ELSE Km(KmPerLatUnit * Abs(Val(lat1) - Val(lat2)))

\* distance <= max_distance_km, with max_distance_km in millionths of a km.
DistWithin(d, maxMicroKm) == ~d.inf /\ d.km * 1000000 <= maxMicroKm

---------------------------------------------------------------------------
(* Relevance scorer.                                                       *)

\* round(score, 2): thousandths to hundredths.
Round2(m) == IF m >= 0 THEN (m + 5) \div 10 ELSE -((-m + 5) \div 10)

\* The weighted popularity value without the normalisation of line 21.
PopularitySubUnclamped(ride) == 3 * ride.popularity_score

\* search_engine.py:21-22, in thousandths; ride.popularity_score is in
\* hundredths. Only the upper end is clamped.
PopularitySub(ride) == 3 * Min(ride.popularity_score, 10000)

\* search_engine.py:25-32
DistanceSub(ride, sp) ==
    IF Truthy(sp.from_lat) /\ Truthy(sp.from_lng)
    THEN LET d == haversine_distance(sp.from_lat, sp.from_lng,
                                     ride.start_lat, ride.start_lng)
         IN  IF d.inf THEN 0 ELSE 250 * Max(0, 100 - d.km * 2)
    ELSE 0

\* search_engine.py:35-38
RatingSub(ride) ==
    LET prof == Profile(ride.driver_id)
    IN  IF Truthy(prof.driver_rating)
        THEN 200 * (2 * Val(prof.driver_rating) + Min(prof.total_rides * 2, 20))
        ELSE 0

\* search_engine.py:41-44; the division is exact on the prices of the model.
PriceSub(ride, sp) ==
    IF Truthy(sp.max_price)
    THEN Max(0, 15000 - (7500 * ride.price_per_seat) \div Val(sp.max_price))
    ELSE 0

RecencySub(ride, t) ==
    IF ride.departure_time > t
    THEN LET ticks == ride.departure_time - t
         IN  IF ticks <= 40 THEN Max(0, 10000 - 120 * ticks)
                            ELSE Max(0, 6000 - 25 * ticks)
    ELSE 0

\* calculate_ride_relevance(ride, search_params), evaluated when the clock
\* reads t; the result is in hundredths.
calculate_ride_relevance(ride, sp, t) ==
    Round2(PopularitySub(ride) + DistanceSub(ride, sp) + RatingSub(ride)
           + PriceSub(ride, sp) + RecencySub(ride, t))

---------------------------------------------------------------------------
(* Result ranker. A candidate is [ride, relevance_score, distance]; a sort *)
(* key is nullable. sorted() raises TypeError as soon as it compares a     *)
(* None key, which it does whenever there are two candidates or more.      *)

SortStrategies ==
    {"relevance", "distance", "price", "departure_time", "popularity",
     "driver_rating", "newest"}

\* The branch of the if/elif chain taken (search_engine.py:62-78).
SortBranch(sort_by, sp) ==
    CASE sort_by = "relevance" -> "relevance"
      [] sort_by = "distance" /\ Truthy(sp.from_lat) -> "distance"
      [] sort_by = "price" -> "price"
      [] sort_by = "departure_time" -> "departure_time"
      [] sort_by = "popularity" -> "popularity"
      [] sort_by = "driver_rating" -> "driver_rating"
      [] OTHER -> "relevance"

\* The key function of each branch.
SortKey(c, branch) ==
    CASE branch = "relevance" -> Some(c.relevance_score)
      [] branch = "distance" -> c.distance
      [] branch = "price" -> Some(c.ride.price_per_seat)
      [] branch = "departure_time" -> Some(c.ride.departure_time)
      [] branch = "popularity" -> Some(c.ride.popularity_score)
      [] OTHER -> Profile(c.ride.driver_id).driver_rating

SortReverse(branch) == branch \in {"relevance", "popularity", "driver_rating"}

GoesBefore(ke, kx, desc) == IF desc THEN ke > kx ELSE ke < kx

\* Insert e into the sorted sequence s behind every element it does not
\* strictly precede: equal keys keep their input order.
RECURSIVE InsertSorted(_, _, _, _)
InsertSorted(s, e, branch, desc) ==
    IF s = <<>> THEN <<e>>
    ELSE IF GoesBefore(Val(SortKey(e, branch)), Val(SortKey(Head(s), branch)), desc)
         THEN <<e>> \o s
         ELSE <<Head(s)>> \o InsertSorted(Tail(s), e, branch, desc)

RECURSIVE StableSort(_, _, _)
StableSort(s, branch, desc) ==
    IF s = <<>> THEN <<>>
    ELSE InsertSorted(StableSort(SubSeq(s, 1, Len(s) - 1), branch, desc),
                      s[Len(s)], branch, desc)

\* sort_rides_by_criteria(rides_with_scores, sort_by, search_params)
sort_rides_by_criteria(cands, sort_by, sp) ==
    LET branch == SortBranch(sort_by, sp)
    IN  IF Len(cands) >= 2 /\ \E i \in 1..Len(cands) : IsNone(SortKey(cands[i], branch))
        THEN [raised |-> TRUE, list |-> <<>>]
        ELSE [raised |-> FALSE,
              list |-> StableSort(cands, branch, SortReverse(branch))]

---------------------------------------------------------------------------
(* Text matching of the ride query. The texts of the model are in one      *)
(* case, so ILIKE is containment.                                          *)

Comma == ","

Contains(hay, needle) ==
    \E i \in 1..(Len(hay) - Len(needle) + 1) :
        SubSeq(hay, i, i + Len(needle) - 1) = needle

HasComma(s) == \E i \in 1..Len(s) : s[i] = Comma

\* s.split(',')[0].strip()
RECURSIVE BeforeComma(_)
BeforeComma(s) ==
    IF s = <<>> \/ Head(s) = Comma THEN <<>>
    ELSE <<Head(s)>> \o BeforeComma(Tail(s))

\* riders.py:113-120
LocationParts(text) ==
    {Strip(text)} \cup (IF HasComma(text) THEN {Strip(BeforeComma(text))} ELSE {})

\* riders.py:123-129: OR of ILIKE %part%
IlikeMatch(column, text) == \E part \in LocationParts(text) : Contains(column, part)

\* The words of a text, split at blanks and commas.
RECURSIVE Words(_, _)
Words(s, cur) ==
    IF s = <<>> THEN (IF cur = <<>> THEN {} ELSE {cur})
    ELSE IF Head(s) \in {Space, Comma}
         THEN (IF cur = <<>> THEN {} ELSE {cur}) \cup Words(Tail(s), <<>>)
         ELSE Words(Tail(s), Append(cur, Head(s)))

\* riders.py:104-109: to_tsvector(column) @@ plainto_tsquery(text): every
\* word of the query is a word of the column.
FullTextMatch(column, text) == Words(text, <<>>) \subseteq Words(column, <<>>)

LocationMatch(column, text, use_full_text) ==
    IF use_full_text THEN FullTextMatch(column, text) ELSE IlikeMatch(column, text)

---------------------------------------------------------------------------
(* Location resolver over the alias table (reference data).                *)

LocationAliases ==
    { [id |-> 1, canonical_name |-> LocX, alias_name |-> LocX,
       lat |-> Some(1), lng |-> Some(Lng), popularity |-> 5] }

AliasResult(a) == Some([canonical_name |-> a.canonical_name, lat |-> a.lat, lng |-> a.lng])

\* resolve_location_aliases(text) over an alias table: the results the two
\* queries can give. .first() without ORDER BY may return any exact match,
\* and ORDER BY popularity DESC puts any of the most popular partial
\* matches first.
ResolveIn(aliases, text) ==
    LET exact == {a \in aliases : a.alias_name = text \/ a.canonical_name = text}
        partial == {a \in aliases :
                       Contains(a.alias_name, text) \/ Contains(a.canonical_name, text)}
        top == {a \in partial : \A b \in partial : b.popularity <= a.popularity}
    IN  IF text = <<>> THEN {None}
        ELSE IF exact # {} THEN {AliasResult(a) : a \in exact}
        ELSE IF partial # {} THEN {AliasResult(a) : a \in top}
        ELSE {None}

\* resolve_location_aliases(text) over the alias table of the searches.
ResolveChoices(text) == ResolveIn(LocationAliases, text)

---------------------------------------------------------------------------
(* Advanced search: riders.py advanced_search_rides, lines 23-187, as a    *)
(* function of the request, the store and the clock readings.              *)
(* A request body is a record of nullable fields (<<>>: key absent).       *)

MinutesPerTick == 36
TicksPerDay == 40

\* riders.py:27-31
SearchIsValid(data) ==
    Strip(GetText(data.from)) # <<>> /\ Strip(GetText(data.to)) # <<>>

\* riders.py:34-72. max_distance_km is in millionths of a km.
SearchParams(data, fromRes) ==
    LET md == IF IsNone(data.max_distance) THEN 25 ELSE Val(data.max_distance)
        backfill == data.resolve_aliases /\ fromRes # None /\ ~Truthy(data.from_lat)
    IN  [from |-> Strip(GetText(data.from)),
         to |-> Strip(GetText(data.to)),
         from_lat |-> IF backfill THEN Val(fromRes).lat ELSE data.from_lat,
         from_lng |-> IF backfill THEN Val(fromRes).lng ELSE data.from_lng,
         date |-> data.date,
         max_distance |-> md,
         max_distance_km |-> IF md # 0 THEN md * 1609344 ELSE 40234000,
         max_price |-> data.max_price,
         min_seats |-> IF IsNone(data.min_seats) THEN 1 ELSE Val(data.min_seats),
         sort_by |-> IF IsNone(data.sort_by) THEN "relevance" ELSE Val(data.sort_by),
         limit |-> Min(IF IsNone(data.limit) THEN 50 ELSE Val(data.limit), 100),
         use_full_text |-> data.use_full_text,
         resolve_aliases |-> data.resolve_aliases]

\* riders.py:85-93: a date that parses restricts departure to its day; one
\* that does not parse is ignored.
DateFilter(ride, date) ==
    IF IsNone(date) \/ ~Val(date).parses THEN TRUE
    ELSE /\ ride.departure_time >= Val(date).day * TicksPerDay
         /\ ride.departure_time < (Val(date).day + 1) * TicksPerDay

\* riders.py:75-143: the WHERE clause of the ride query, the clock read at t.
RideFilter(ride, sp, t) ==
    /\ ride.status \in {"available", "scheduled"}
    /\ ride.available_seats >= sp.min_seats
    /\ ride.departure_time * MinutesPerTick >= t * MinutesPerTick - 30
    /\ DateFilter(ride, sp.date)
    /\ (Truthy(sp.max_price) => ride.price_per_seat <= Val(sp.max_price))
    /\ LocationMatch(ride.start_location, sp.from, sp.use_full_text)
    /\ LocationMatch(ride.end_location, sp.to, sp.use_full_text)

RECURSIVE FilterSeq(_, _, _)
FilterSeq(s, sp, t) ==
    IF s = <<>> THEN <<>>
    ELSE (IF RideFilter(Head(s), sp, t) THEN <<Head(s)>> ELSE <<>>)
         \o FilterSeq(Tail(s), sp, t)

\* riders.py:148-156
DistanceFilterOn(sp) ==
    Truthy(sp.from_lat) /\ Truthy(sp.from_lng) /\ sp.max_distance_km # 0

RideInRadius(ride, sp) ==
    /\ Truthy(ride.start_lat) /\ Truthy(ride.start_lng)
    /\ DistWithin(haversine_distance(sp.from_lat, sp.from_lng,
                                     ride.start_lat, ride.start_lng),
                  sp.max_distance_km)

RECURSIVE RadiusSeq(_, _)
RadiusSeq(s, sp) ==
    IF s = <<>> THEN <<>>
    ELSE (IF RideInRadius(Head(s), sp) THEN <<Head(s)>> ELSE <<>>)
         \o RadiusSeq(Tail(s), sp)

\* riders.py:168-173 and serializers.py:29-35
RideDistance(ride, sp) ==
    IF Truthy(sp.from_lat) /\ Truthy(sp.from_lng)
       /\ Truthy(ride.start_lat) /\ Truthy(ride.start_lng)
    THEN Some(haversine_distance(sp.from_lat, sp.from_lng,
                                 ride.start_lat, ride.start_lng).km)
    ELSE None

\* riders.py:159-175, the clock read at t
ScoreRide(ride, sp, t) ==
    [ride |-> ride,
     relevance_score |-> calculate_ride_relevance(ride, sp, t),
     distance |-> RideDistance(ride, sp)]

\* seq[:n] of Python
SliceTo(s, n) ==
    IF n >= 0 THEN SubSeq(s, 1, Min(n, Len(s)))
              ELSE SubSeq(s, 1, Max(0, Len(s) + n))

\* A lookup that passed over the requests the driver rejected.
MyOpenRequestStatus(me, ride_id, requests) ==
    LET mine == {r \in requests : /\ r.rider_id = me /\ r.ride_id = ride_id
                                   /\ r.status # "rejected"}
    IN  IF mine = {} THEN None
        ELSE Some((CHOOSE r \in mine : \A q \in mine : r.id <= q.id).status)

\* serializers.py:23-24: the caller's request on the ride, the one stored
\* first when there are several.
MyRequestStatus(me, ride_id, requests) ==
    LET mine == {r \in requests : r.rider_id = me /\ r.ride_id = ride_id}
    IN  IF mine = {} THEN None
        ELSE Some((CHOOSE r \in mine : \A q \in mine : r.id <= q.id).status)

\* serialize_search_ride(ride, me_profile_id, search_params), the clock
\* read at t
serialize_search_ride(ride, me, sp, requests, t) ==
    LET my_status == MyRequestStatus(me, ride.id, requests)
        is_own == ride.driver_id = me
    IN  [ride_id |-> ride.id,
         driver_id |-> ride.driver_id,
         available_seats |-> ride.available_seats,
         price_per_seat |-> ride.price_per_seat,
         status |-> ride.status,
         my_request_status |-> my_status,
         is_own_ride |-> is_own,
         can_request |-> /\ ~is_own
                         /\ my_status = None
                         /\ ride.available_seats > 0
                         /\ ride.status # "full",
         popularity_score |-> ride.popularity_score,
         relevance_score |-> calculate_ride_relevance(ride, sp, t),
         distance_km |-> RideDistance(ride, sp)]

\* riders.py:146-187: query, radius filter, scoring (clock at tRank), sort,
\* limit, serialization (clock at tSer). The TypeError of sorted() leaves
\* the handler.
SearchPipeline(me, sp, rideTable, requests, tRank, tSer) ==
    LET matched == FilterSeq(rideTable, sp, tRank)
        inRadius == IF DistanceFilterOn(sp) THEN RadiusSeq(matched, sp) ELSE matched
        scored == [i \in 1..Len(inRadius) |-> ScoreRide(inRadius[i], sp, tRank)]
        sorted == sort_rides_by_criteria(scored, sp.sort_by, sp)
        limited == SliceTo(sorted.list, sp.limit)
    IN  [raised |-> sorted.raised,
         rides_with_scores |-> limited,
         results |-> [i \in 1..Len(limited) |->
                         serialize_search_ride(limited[i].ride, me, sp, requests, tSer)]]

---------------------------------------------------------------------------
(* Analytics and popularity loop: utils/analytics.py.                      *)
(* popular_routes.avg_price is kept in units of 1/AvgScale, which makes    *)
(* every running average of up to six prices a whole number.               *)

AvgScale == 60

\* math.log10(n) * 20 in units of 1/10000, for the counts the model reaches.
Log10Times20(n) ==
    CASE n = 1 -> 0      [] n = 2 -> 60206  [] n = 3 -> 95424  [] n = 4 -> 120412
      [] n = 5 -> 139794 [] n = 6 -> 155630 [] n = 7 -> 169020 [] n = 8 -> 180618
      [] n = 9 -> 190849 [] n = 10 -> 200000 [] n = 11 -> 208279
      [] n = 100 -> 400000 [] n = 101 -> 400864 [] n = 102 -> 401720
      [] n = 103 -> 402567 [] n = 104 -> 403407 [] n = 105 -> 404238
      [] n = 106 -> 405061
      [] n = 1000 -> 600000 [] n = 1001 -> 600087 [] n = 1002 -> 600174
      [] n = 1003 -> 600260 [] n = 1004 -> 600347 [] n = 1005 -> 600433
      [] n = 1006 -> 600520
      [] n = 10000 -> 800000 [] n = 10001 -> 800009 [] n = 10002 -> 800017
      [] n = 10003 -> 800026 [] n = 10004 -> 800035 [] n = 10005 -> 800043
      [] n = 10006 -> 800052
      [] OTHER -> 215836

\* The search-count term without its ceiling.
SearchVolumeScoreUncapped(route) == Log10Times20(route.search_count + 1)

\* analytics.py:82-83, in units of 1/10000
SearchVolumeScore(route) == Min(Log10Times20(route.search_count + 1), 600000)

\* analytics.py:86-87
RideCountScore(route) == Min(route.ride_count * 5, 30) * 10000

\* analytics.py:90-94, the clock read at t
RecencyBonus(route, t) ==
    LET days == IF IsNone(route.updated_at) THEN 0
                ELSE (t - Val(route.updated_at)) \div TicksPerDay
    IN  IF IsNone(route.updated_at) \/ days > 7 THEN 0
        ELSE Max(0, 100000 - 14000 * days)

\* calculate_route_popularity_score(popular_route), the clock read at t;
\* the sum is formed in units of 1/10000 and rounded to hundredths.
calculate_route_popularity_score(route, t) ==
    (SearchVolumeScore(route) + RideCountScore(route) + RecencyBonus(route, t) + 50)
        \div 100

RouteKey(row) == <<row.from_location, row.to_location>>

HistoryRows(user, from, to) ==
    {r \in searchHistory :
        r.user_id = user /\ r.from_location = from /\ r.to_location = to}

RouteRows(from, to) ==
    {r \in popularRoutes : r.from_location = from /\ r.to_location = to}

\* What Query.first() can return: any matching row, None when there is none.
First(rows) == IF rows = {} THEN {None} ELSE {Some(r) : r \in rows}

\* The UPDATE the unit of work emits at flush for a row loaded as `read`
\* and holding `row` after the assignments: it sets the columns whose value
\* differs from the loaded one, to the value computed in the session.
WriteBack(table, read, row) ==
    { IF r.id = row.id
      THEN [c \in DOMAIN r |-> IF row[c] # read[c] THEN row[c] ELSE r[c]]
      ELSE r : r \in table }

\* The calls counted per key, one more for `key`.
Counted(counter, key) == IF key \in DOMAIN counter THEN counter[key] ELSE 0

CountCall(counter, key) ==
    [k \in DOMAIN counter \cup {key} |->
        Counted(counter, k) + (IF k = key THEN 1 ELSE 0)]

NoLoc == [op |-> "none"]
NoResp == [op |-> "none", status |-> 0]

\* A worker that has flushed an UPDATE of a row holds the row's lock until
\* it commits; log_search_analytics flushes search_history when it queries
\* popular_routes (autoflush).
HistoryRowLocked(p, row_id) ==
    \E q \in Procs \ {p} :
        /\ pc[q] = "log_commit"
        /\ loc[q].history # None
        /\ Val(loc[q].history).id = row_id

---------------------------------------------------------------------------
(* POST /rider/search_rides/advanced                                       *)

\* A handler that answered by the outcome of log_search_analytics.
ResponseStatusChecked(log_result) == IF log_result THEN 200 ELSE 500

\* riders.py:190: the return value of log_search_analytics is dropped, and
\* analytics.py:70-73 lets no exception out.

ResponseStatus(log_result) == 200

SearchResponse(user, data, status, results, log_result) ==
    [op |-> "search", status |-> status, rides |-> results, user |-> user,
     data |-> data, log_result |-> log_result]

\* riders.py:30-31: a blank 'from' or 'to' is answered 400.
SearchRejected(p, u, data) ==
    /\ pc[p] = "idle"
    /\ ~SearchIsValid(data)
    /\ resp' = [resp EXCEPT ![p] = SearchResponse(u, data, 400, <<>>, FALSE)]
    /\ UNCHANGED <<now, storeVars, pc, loc, logged, calls, sortVars>>

\* riders.py:33-187: everything up to the call of log_search_analytics.
\* The scoring reads the clock at `now`, the serialization at tSer.
SearchStart(p, u, data, tSer) ==
    /\ pc[p] = "idle"
    /\ SearchIsValid(data)
    /\ calls.search < MaxSearches
    /\ tSer >= now
    /\ \E fromRes \in (IF data.resolve_aliases
                       THEN ResolveChoices(Strip(GetText(data.from)))
                       ELSE {None}) :
          LET sp == SearchParams(data, fromRes)
              run == SearchPipeline(u, sp, rides, rideRequests, now, tSer)
          IN  IF run.raised
              THEN /\ resp' = [resp EXCEPT
                          ![p] = SearchResponse(u, data, 500, <<>>, FALSE)]
                   /\ UNCHANGED <<pc, loc>>
              ELSE /\ pc' = [pc EXCEPT ![p] = "log_sh"]
                   /\ loc' = [loc EXCEPT ![p] =
                          [op |-> "search", user |-> u, data |-> data, sp |-> sp,
                           rides_with_scores |-> run.rides_with_scores,
                           results |-> run.results,
                           history_read |-> None, history |-> None,
                           route_read |-> None, route |-> None,
                           log_result |-> FALSE]]
                   /\ UNCHANGED resp
    /\ now' = tSer
    /\ calls' = [calls EXCEPT !.search = @ + 1]
    /\ UNCHANGED <<storeVars, logged, sortVars>>

\* analytics.py:12-41: the search_history row is read and updated in the
\* session, or a new one is added to it.
LogReadHistory(p) ==
    /\ pc[p] = "log_sh"
    /\ \E found \in First(HistoryRows(loc[p].user, loc[p].sp.from, loc[p].sp.to)) :
          loc' = [loc EXCEPT ![p].history_read = found,
                             ![p].history =
                     IF found = None THEN None
                     ELSE Some([Val(found) EXCEPT
                                   !.search_count = @ + 1,
                                   !.results_count = Len(loc[p].results),
                                   !.last_searched = now])]
    /\ pc' = [pc EXCEPT ![p] = "log_pr"]
    /\ UNCHANGED <<now, storeVars, resp, logged, calls, sortVars>>

\* analytics.py:44-65: the popular_routes row is read and updated in the
\* session, or a new one is added to it.
LogReadRoute(p) ==
    /\ pc[p] = "log_pr"
    /\ loc[p].history # None => ~HistoryRowLocked(p, Val(loc[p].history).id)
    /\ \E found \in First(RouteRows(loc[p].sp.from, loc[p].sp.to)) :
          loc' = [loc EXCEPT ![p].route_read = found,
                             ![p].route =
                     IF found = None THEN None
                     ELSE LET counted == [Val(found) EXCEPT
                                             !.search_count = @ + 1,
                                             !.updated_at = Some(now)]
                          IN  Some([counted EXCEPT !.popularity_score =
                                       calculate_route_popularity_score(counted, now)])]
    /\ pc' = [pc EXCEPT ![p] = "log_commit"]
    /\ UNCHANGED <<now, storeVars, resp, logged, calls, sortVars>>

NewHistoryRow(id, l, t) ==
    [id |-> id, user_id |-> l.user, from_location |-> l.sp.from,
     to_location |-> l.sp.to, search_count |-> 1,
     results_count |-> Len(l.results), last_searched |-> t]

NewRouteRow(id, l, t) ==
    [id |-> id, from_location |-> l.sp.from, to_location |-> l.sp.to,
     search_count |-> 1, ride_count |-> 0, avg_price |-> None,
     popularity_score |-> 100, updated_at |-> Some(t)]

\* analytics.py:67-68: db.session.commit() writes both rows.
LogCommit(p) ==
    /\ pc[p] = "log_commit"
    /\ searchHistory' =
          IF loc[p].history = None
          THEN searchHistory \cup {NewHistoryRow(nextId, loc[p], now)}
          ELSE WriteBack(searchHistory, Val(loc[p].history_read), Val(loc[p].history))
    /\ popularRoutes' =
          IF loc[p].route = None
          THEN popularRoutes \cup
                  {NewRouteRow(IF loc[p].history = None THEN nextId + 1 ELSE nextId,
                               loc[p], now)}
          ELSE WriteBack(popularRoutes, Val(loc[p].route_read), Val(loc[p].route))
    /\ nextId' = nextId + (IF loc[p].history = None THEN 1 ELSE 0)
                        + (IF loc[p].route = None THEN 1 ELSE 0)
    /\ logged' = CountCall(logged, <<loc[p].user, loc[p].sp.from, loc[p].sp.to>>)
    /\ loc' = [loc EXCEPT ![p].log_result = TRUE]
    /\ pc' = [pc EXCEPT ![p] = "respond"]
    /\ UNCHANGED <<now, rides, rideRequests, messages, resp, calls, sortVars>>

\* A failure that left the flushed search_history row behind: the rows
\* were committed one table at a time.
LogFailKeepsHistory(p) ==
    /\ pc[p] \in {"log_sh", "log_pr", "log_commit"}
    /\ searchHistory' =
          IF pc[p] = "log_commit" /\ loc[p].history # None
          THEN WriteBack(searchHistory, Val(loc[p].history_read), Val(loc[p].history))
          ELSE searchHistory
    /\ loc' = [loc EXCEPT ![p].log_result = FALSE]
    /\ pc' = [pc EXCEPT ![p] = "respond"]
    /\ UNCHANGED <<now, rides, rideRequests, messages, popularRoutes, nextId,
                   resp, logged, calls, sortVars>>

\* analytics.py:70-73: any statement of the try block raises; the session
\* is rolled back and False returned.
LogFail(p) ==
    /\ pc[p] \in {"log_sh", "log_pr", "log_commit"}
    /\ loc' = [loc EXCEPT ![p].log_result = FALSE]
    /\ pc' = [pc EXCEPT ![p] = "respond"]
    /\ UNCHANGED <<now, storeVars, resp, logged, calls, sortVars>>

\* riders.py:192-210
SearchRespond(p) ==
    /\ pc[p] = "respond"
    /\ resp' = [resp EXCEPT ![p] =
                   SearchResponse(loc[p].user, loc[p].data,
                                  ResponseStatus(loc[p].log_result),
                                  loc[p].results, loc[p].log_result)]
    /\ pc' = [pc EXCEPT ![p] = "idle"]
    /\ loc' = [loc EXCEPT ![p] = NoLoc]
    /\ UNCHANGED <<now, storeVars, logged, calls, sortVars>>

---------------------------------------------------------------------------
(* update_route_ride_stats(from_location, to_location, price_per_seat).    *)
(* No route of the repository calls it; it is an operation of its own.     *)

\* analytics.py:176-187 on the row the query returned, the clock read at t
RouteWithRide(row, price, t) ==
    LET n == row.ride_count + 1
        avg == IF Truthy(row.avg_price)
               THEN (Val(row.avg_price) * (n - 1) + price * AvgScale) \div n
               ELSE price * AvgScale
        counted == [row EXCEPT !.ride_count = n, !.avg_price = Some(avg),
                               !.updated_at = Some(t)]
    IN  [counted EXCEPT !.popularity_score =
            calculate_route_popularity_score(counted, t)]

\* analytics.py:170-187: without a row for the route nothing is done.
StatsRead(p, from, to, price) ==
    /\ pc[p] = "idle"
    /\ calls.stats < MaxStatsCalls
    /\ \E found \in First(RouteRows(from, to)) :
          IF found = None
          THEN /\ resp' = [resp EXCEPT ![p] = [op |-> "stats", status |-> 0, updated |-> FALSE]]
               /\ UNCHANGED <<pc, loc>>
          ELSE /\ loc' = [loc EXCEPT ![p] =
                      [op |-> "stats", price_per_seat |-> price, route_read |-> found,
                       route |-> Some(RouteWithRide(Val(found), price, now))]]
               /\ pc' = [pc EXCEPT ![p] = "stats_commit"]
               /\ UNCHANGED resp
    /\ calls' = [calls EXCEPT !.stats = @ + 1]
    /\ UNCHANGED <<now, storeVars, logged, sortVars>>

\* analytics.py:189-190
StatsCommit(p) ==
    /\ pc[p] = "stats_commit"
    /\ popularRoutes' = WriteBack(popularRoutes, Val(loc[p].route_read), Val(loc[p].route))
    /\ resp' = [resp EXCEPT ![p] = [op |-> "stats", status |-> 0, updated |-> TRUE]]
    /\ pc' = [pc EXCEPT ![p] = "idle"]
    /\ loc' = [loc EXCEPT ![p] = NoLoc]
    /\ UNCHANGED <<now, rides, rideRequests, messages, searchHistory, nextId,
                   logged, calls, sortVars>>

---------------------------------------------------------------------------
(* POST /driver/offer_ride. A payload field is <<>> (key absent) or <<v>>; *)
(* the value of a coordinate key is itself nullable.                       *)

\* driver/utils.py:1-10
validate_ride_payload(data) ==
    /\ data.start_location # <<>> /\ data.end_location # <<>>
    /\ data.start_lat # <<>> /\ data.start_lng # <<>>
    /\ data.departure_time # <<>>
    /\ data.available_seats # <<>> /\ data.price_per_seat # <<>>

\* driver.py:23-39; models.py:60: popularity_score takes the column default.
NewRide(id, driver, data) ==
    [id |-> id, driver_id |-> driver,
     start_location |-> Val(data.start_location),
     end_location |-> Val(data.end_location),
     start_lat |-> Val(data.start_lat), start_lng |-> Val(data.start_lng),
     departure_time |-> Val(data.departure_time),
     available_seats |-> Val(data.available_seats),
     price_per_seat |-> Val(data.price_per_seat),
     status |-> IF IsNone(data.status) THEN "available" ELSE Val(data.status),
     popularity_score |-> 0]

\* models.py:20-37 and the backrefs of models.py:18, 113, 143, 165, 166,
\* 200: the attributes of a Profile, the object token_required stores in
\* g.current_user (auth/utils.py:93-103).
ProfileAttributes ==
    {"id", "user_id", "name", "email", "photo", "driver_rating", "rider_rating",
     "total_rides", "phone", "is_onboarded", "created_at", "updated_at",
     "rides", "ride_requests", "user", "license", "notifications",
     "written_reviews", "received_reviews", "search_history"}

\* getattr(obj, name) of a Profile: FALSE stands for AttributeError.
HasAttr(name) == name \in ProfileAttributes

\* driver.py:12-44. Line 14 reads g.current_user.profile and line 16
\* profile.is_driver; an attribute a Profile lacks raises AttributeError,
\* which Flask answers with 500 before anything is stored. Where the ride
\* is stored (lines 23-42), popular_routes is not touched.
OfferRide(p, u, data) ==
    /\ pc[p] = "idle"
    /\ calls.offer < MaxOffers
    /\ LET answer(status) == [op |-> "offer_ride", status |-> status, user |-> u,
                              data |-> data, call |-> calls.offer + 1]
       IN  IF ~HasAttr("profile") \/ ~HasAttr("is_driver")
           THEN /\ resp' = [resp EXCEPT ![p] = answer(500)]
                /\ UNCHANGED <<rides, nextId>>
           ELSE IF ~validate_ride_payload(data)
           THEN /\ resp' = [resp EXCEPT ![p] = answer(400)]
                /\ UNCHANGED <<rides, nextId>>
           ELSE /\ rides' = Append(rides, NewRide(nextId, u, data))
                /\ nextId' = nextId + 1
                /\ resp' = [resp EXCEPT ![p] = answer(201)]
    /\ calls' = [calls EXCEPT !.offer = @ + 1]
    /\ UNCHANGED <<now, rideRequests, messages, searchHistory, popularRoutes,
                   pc, loc, logged, sortVars>>

---------------------------------------------------------------------------
(* PATCH /driver/ride/<ride_id> and the two decisions on a ride request.   *)
(* A payload key is <<>> (absent) or <<v>>.                                *)

\* Ride.query.get(ride_id)
RideById(id) == {rides[i] : i \in {j \in 1..Len(rides) : rides[j].id = id}}

\* A loop that assigned every key of the payload.
ApplyEveryField(ride, data) ==
    [ride EXCEPT
        !.available_seats = IF IsNone(data.available_seats) THEN @
                            ELSE Val(data.available_seats),
        !.status = IF IsNone(data.status) THEN @ ELSE Val(data.status),
        !.popularity_score = IF IsNone(data.popularity_score) THEN @
                             ELSE Val(data.popularity_score)]

\* driver.py:61-75: the allowed fields the payload holds are assigned, with
\* the value as sent; popularity_score is not among them.
ApplyRideUpdate(ride, data) ==
    [ride EXCEPT
        !.available_seats = IF IsNone(data.available_seats) THEN @
                            ELSE Val(data.available_seats),
        !.status = IF IsNone(data.status) THEN @ ELSE Val(data.status)]

\* driver.py:47-77. Line 50 reads g.current_user.profile.
update_ride(p, u, ride_id, data) ==
    /\ pc[p] = "idle"
    /\ LET answer(status) == [op |-> "update_ride", ride_id |-> ride_id,
                              status |-> status, user |-> u, data |-> data]
       IN  IF ~HasAttr("profile")
           THEN /\ resp' = [resp EXCEPT ![p] = answer(500)]
                /\ UNCHANGED rides
           ELSE IF RideById(ride_id) = {}
           THEN /\ resp' = [resp EXCEPT ![p] = answer(404)]
                /\ UNCHANGED rides
           ELSE IF \E r \in RideById(ride_id) : r.driver_id # u
           THEN /\ resp' = [resp EXCEPT ![p] = answer(403)]
                /\ UNCHANGED rides
           ELSE /\ rides' = [i \in 1..Len(rides) |->
                                IF rides[i].id = ride_id
                                THEN ApplyRideUpdate(rides[i], data) ELSE rides[i]]
                /\ resp' = [resp EXCEPT ![p] = answer(200)]
    /\ UNCHANGED <<now, rideRequests, messages, searchHistory, popularRoutes,
                   nextId, pc, loc, logged, calls, sortVars>>

RequestById(request_id) == {r \in rideRequests : r.id = request_id}

\* driver.py:117-130 and 137-150: the two handlers differ in the status
\* they set. Lines 117 and 137 read g.current_user.profile.
DecideRequest(p, u, request_id, name, decision) ==
    /\ pc[p] = "idle"
    /\ LET answer(status) == [op |-> name, request_id |-> request_id,
                              status |-> status, user |-> u]
       IN  IF ~HasAttr("profile")
           THEN /\ resp' = [resp EXCEPT ![p] = answer(500)]
                /\ UNCHANGED rideRequests
           ELSE IF RequestById(request_id) = {}
           THEN /\ resp' = [resp EXCEPT ![p] = answer(404)]
                /\ UNCHANGED rideRequests
           ELSE IF \E r \in RequestById(request_id) :
                      \E ride \in RideById(r.ride_id) : ride.driver_id # u
           THEN /\ resp' = [resp EXCEPT ![p] = answer(403)]
                /\ UNCHANGED rideRequests
           ELSE IF \E r \in RequestById(request_id) : r.status # "pending"
           THEN /\ resp' = [resp EXCEPT ![p] = answer(400)]
                /\ UNCHANGED rideRequests
           ELSE /\ rideRequests' =
                      { IF r.id = request_id THEN [r EXCEPT !.status = decision] ELSE r :
                          r \in rideRequests }
                /\ resp' = [resp EXCEPT ![p] = answer(200)]
    /\ UNCHANGED <<now, rides, messages, searchHistory, popularRoutes,
                   nextId, pc, loc, logged, calls, sortVars>>

\* driver.py:114-131
accept_ride_request(p, u, request_id) ==
    DecideRequest(p, u, request_id, "accept_ride_request", "accepted")

\* driver.py:134-151
reject_ride_request(p, u, request_id) ==
    DecideRequest(p, u, request_id, "reject_ride_request", "rejected")

---------------------------------------------------------------------------
(* populate_search_data.py: the job that derives rides.popularity_score.   *)

\* SearchDataManager._calculate_ride_score(ride), in hundredths
RideScore(ride, requests, t) ==
    LET prof == Profile(ride.driver_id)
        driver == IF Truthy(prof.driver_rating)
                  THEN 80 * Val(prof.driver_rating) + Min(50 * prof.total_rides, 1000)
                  ELSE 0
        request_count == Cardinality({r \in requests : r.ride_id = ride.id})
        days_until == (ride.departure_time - t) \div TicksPerDay
        recency == IF ride.departure_time > t
                   THEN (IF days_until <= 1 THEN 2000
                         ELSE IF days_until <= 7 THEN 1500
                         ELSE IF days_until <= 30 THEN 1000 ELSE 500)
                   ELSE 0
        seats == IF ride.available_seats > 0
                 THEN Min(ride.available_seats * 2, 10) * 100 ELSE 0
    IN  driver + Min(request_count * 5, 30) * 100 + recency + seats

\* SearchDataManager.calculate_popularity_scores()
CalculatePopularityScores ==
    /\ rides' = [i \in 1..Len(rides) |->
                    [rides[i] EXCEPT !.popularity_score =
                        RideScore(rides[i], rideRequests, now)]]
    /\ rides' # rides
    /\ UNCHANGED <<now, rideRequests, messages, searchHistory, popularRoutes,
                   nextId, pc, loc, resp, logged, calls, sortVars>>

\* Time passes.
Tick ==
    /\ now < MaxNow
    /\ now' = now + 1
    /\ UNCHANGED <<storeVars, pc, loc, resp, logged, calls, sortVars>>

---------------------------------------------------------------------------
(* POST /rider/request_ride                                                *)

\* riders.py:317-358: the answer of the checks, 0 when they all pass. The
\* row a rider already has for the ride is looked up in the store as it is
\* at that moment.
RequestError(u, data, requests) ==
    IF ~Truthy(data.ride_id) THEN 400
    ELSE IF RideById(Val(data.ride_id)) = {} THEN 404
    ELSE LET ride == CHOOSE r \in RideById(Val(data.ride_id)) : TRUE
         IN  IF ride.driver_id = u THEN 403
             ELSE IF \E r \in requests : r.rider_id = u /\ r.ride_id = ride.id THEN 409
             ELSE IF ~data.use_driver_pickup /\ GetText(data.rider_pickup_location) = <<>>
                  THEN 400
             ELSE 0

\* riders.py:314-386: the checks; when they pass, the RideRequest and the
\* initial Message are added to the session.
RequestCheck(p, u, data) ==
    /\ pc[p] = "idle"
    /\ calls.request < MaxRequests
    /\ LET err == RequestError(u, data, rideRequests)
       IN  IF err # 0
           THEN /\ resp' = [resp EXCEPT ![p] =
                               [op |-> "request_ride", status |-> err,
                                user |-> u, data |-> data]]
                /\ UNCHANGED <<pc, loc>>
           ELSE /\ loc' = [loc EXCEPT ![p] =
                               [op |-> "request_ride", user |-> u, data |-> data]]
                /\ pc' = [pc EXCEPT ![p] = "req_commit"]
                /\ UNCHANGED resp
    /\ calls' = [calls EXCEPT !.request = @ + 1]
    /\ UNCHANGED <<now, storeVars, logged, sortVars>>

NewRideRequest(id, u, data) ==
    [id |-> id, rider_id |-> u, ride_id |-> Val(data.ride_id), status |-> "pending",
     use_driver_pickup |-> data.use_driver_pickup]

\* riders.py:388-398: commit, then the 201 answer.
RequestCommit(p) ==
    /\ pc[p] = "req_commit"
    /\ rideRequests' = rideRequests \cup
                          {NewRideRequest(nextId, loc[p].user, loc[p].data)}
    /\ messages' =
          IF Strip(loc[p].data.message) # <<>>
          THEN messages \cup {[id |-> nextId + 1, ride_id |-> Val(loc[p].data.ride_id),
                               sender_id |-> loc[p].user,
                               content |-> Strip(loc[p].data.message)]}
          ELSE messages
    /\ nextId' = nextId + 2
    /\ resp' = [resp EXCEPT ![p] =
                   [op |-> "request_ride", status |-> 201,
                    user |-> loc[p].user, data |-> loc[p].data]]
    /\ pc' = [pc EXCEPT ![p] = "idle"]
    /\ loc' = [loc EXCEPT ![p] = NoLoc]
    /\ UNCHANGED <<now, rides, searchHistory, popularRoutes, logged, calls, sortVars>>

---------------------------------------------------------------------------
(* Inputs of the operations.                                               *)

BlankTexts == {None, Some(<<>>), Some(<<Space>>)}

\* The 'from' values a client sends: absent, empty, blank, and a place
\* with and without blanks around it.
FromInputs == BlankTexts \cup {Some(LocX), Some(<<Space, "X", Space>>)}

ToInputs == {Some(<<Space>>), Some(LocY), Some(<<"Y", Space>>)}

SearchData(from, to) ==
    [from |-> from, to |-> to, from_lat |-> None, from_lng |-> None,
     date |-> None, max_distance |-> None, max_price |-> None, min_seats |-> None,
     sort_by |-> None, limit |-> None, use_full_text |-> TRUE,
     resolve_aliases |-> FALSE]

RidePayload(price, departure) ==
    [start_location |-> Some(LocX), end_location |-> Some(LocY),
     start_lat |-> Some(Some(1)), start_lng |-> Some(Some(Lng)),
     departure_time |-> Some(departure), available_seats |-> Some(2),
     price_per_seat |-> Some(price), status |-> None]

\* The rides of the seeded store: X -> Y, one by each driver.
SeedRides ==
    << NewRide(1, "u1", RidePayload(20, 1)), NewRide(2, "u2", RidePayload(30, 50)) >>

RequestData(ride_id, use_driver_pickup) ==
    [ride_id |-> ride_id, message |-> <<"h", "i">>,
     use_driver_pickup |-> use_driver_pickup, rider_pickup_location |-> None]

---------------------------------------------------------------------------
(* sort_rides_by_criteria on its own: the calls it is checked on.          *)

SortCandidates ==
    { ScoreRide(r, SearchParams(SearchData(Some(LocX), Some(LocY)), None), 0) :
        r \in { NewRide(1, "u1", RidePayload(20, 1)),
                NewRide(2, "u2", RidePayload(30, 50)),
                NewRide(3, "u1", RidePayload(20, 50)),
                NewRide(4, "u2", RidePayload(30, 1)) } }

\* The candidate lists of a query: every ride at most once.
SortLists ==
    UNION { {s \in [1..n -> SortCandidates] :
                \A i, j \in 1..n : i # j => s[i] # s[j]} : n \in 0..MaxSortLen }

SortParamChoices ==
    { SearchParams([SearchData(Some(LocX), Some(LocY)) EXCEPT !.from_lat = lat], None) :
        lat \in {None, Some(1)} }

NoSort == [raised |-> FALSE, list |-> <<>>, done |-> FALSE]

SortRun ==
    /\ ~sortOut.done
    /\ sortOut' = [raised |-> sort_rides_by_criteria(sortIn.cands, sortIn.sort_by, sortIn.sp).raised,
                   list |-> sort_rides_by_criteria(sortIn.cands, sortIn.sort_by, sortIn.sp).list,
                   done |-> TRUE]
    /\ UNCHANGED <<now, storeVars, pc, loc, resp, logged, calls, sortIn>>

---------------------------------------------------------------------------
(* Specifications.                                                         *)

InitStore(rideTable) ==
    /\ now = 0
    /\ rides = rideTable
    /\ rideRequests = {}
    /\ messages = {}
    /\ searchHistory = {}
    /\ popularRoutes = {}
    /\ nextId = Len(rideTable) + 1
    /\ pc = [p \in Procs |-> "idle"]
    /\ loc = [p \in Procs |-> NoLoc]
    /\ resp = [p \in Procs |-> NoResp]
    /\ logged = [k \in {} |-> 0]
    /\ calls = [search |-> 0, offer |-> 0, request |-> 0, stats |-> 0]

NoSortCall == [cands |-> <<>>, sort_by |-> "relevance",
               sp |-> SearchParams(SearchData(Some(LocX), Some(LocY)), None)]

InitSort ==
    /\ sortIn = NoSortCall
    /\ sortOut = NoSort

\* The advanced search handler, one request at a time, over a seeded store.
Init == InitStore(SeedRides) /\ InitSort

LogStep(p) ==
    \/ LogReadHistory(p)
    \/ LogReadRoute(p)
    \/ LogCommit(p)
    \/ LogFail(p)
    \/ SearchRespond(p)

Next ==
    \/ \E u \in Users, from \in FromInputs, to \in ToInputs :
          \/ SearchRejected(1, u, SearchData(from, to))
          \/ SearchStart(1, u, SearchData(from, to), now)
    \/ LogStep(1)

Spec == Init /\ [][Next]_vars

\* Searches of one route and its ride statistics, by concurrent workers.
NextAnalytics ==
    \E p \in Procs :
        \/ \E u \in Users : SearchStart(p, u, SearchData(Some(LocX), Some(LocY)), now)
        \/ LogStep(p)
        \/ \E price \in {0, 30} : StatsRead(p, LocX, LocY, price)
        \/ StatsCommit(p)

SpecAnalytics == Init /\ [][NextAnalytics]_vars

\* Ride requests of concurrent workers over a seeded store.
NextRequests ==
    \E p \in Procs :
        \/ \E u \in Users, ride_id \in {None, Some(1), Some(2), Some(9)},
              own_pickup \in BOOLEAN :
              RequestCheck(p, u, RequestData(ride_id, own_pickup))
        \/ RequestCommit(p)

SpecRequests == Init /\ [][NextRequests]_vars

\* Ride postings, searches, the popularity job and the clock, one request
\* at a time, from an empty store.
InitRides == InitStore(SeedRides) /\ InitSort

NextRides ==
    \/ \E u \in Users, departure \in {1, 50} :
          OfferRide(1, u, RidePayload(30, departure))
    \/ OfferRide(1, "u1", [RidePayload(20, 1) EXCEPT !.price_per_seat = None])
    \/ \E tSer \in now..Min(now + 1, MaxNow) :
          SearchStart(1, "u2", SearchData(Some(LocX), Some(LocY)), tSer)
    \/ LogStep(1)
    \/ CalculatePopularityScores
    \/ Tick

SpecRides == InitRides /\ [][NextRides]_vars

\* sort_rides_by_criteria applied to every call of the bounded input sets.
InitSortCalls ==
    /\ InitStore(<<>>)
    /\ sortIn \in [cands : SortLists, sort_by : SortStrategies, sp : SortParamChoices]
    /\ sortOut = NoSort

SpecSort == InitSortCalls /\ [][SortRun]_vars

---------------------------------------------------------------------------
(* Advanced search over a store of rides that differ in place, price,      *)
(* seats, status and departure, for requests that differ in origin,        *)
(* radius, limit, filters and ordering.                                    *)

\* A ride row: X -> Y, start on the meridian at latitude `lat`.
RideRow(id, driver, lat, price, seats, departure, status) ==
    [NewRide(id, driver, RidePayload(price, departure)) EXCEPT
        !.start_lat = lat,
        !.start_lng = IF lat = None THEN None ELSE Some(Lng),
        !.available_seats = seats,
        !.status = status]

FilterRides ==
    << RideRow(1, "u1", Some(1), 20, 2, 1, "available"),
       RideRow(2, "u2", Some(5), 30, 2, 50, "available"),
       RideRow(3, "u1", None, 30, 0, 50, "scheduled"),
       RideRow(4, "u1", Some(1), 20, 2, 50, "full") >>

BaseSearch == SearchData(Some(LocX), Some(LocY))

\* Requests that differ in origin and radius (miles).
GeoSearches ==
    { [BaseSearch EXCEPT !.from_lat = lat, !.from_lng = lng, !.max_distance = md,
                         !.min_seats = Some(0), !.resolve_aliases = ra] :
        lat \in {None, Some(0), Some(1)}, lng \in {None, Some(Lng)},
        md \in {None, Some(10)}, ra \in BOOLEAN }

LimitSearches ==
    { [BaseSearch EXCEPT !.limit = Some(n), !.min_seats = Some(0)] : n \in {-1, 0, 1, 101} }

FilterSearches ==
    { [BaseSearch EXCEPT !.min_seats = seats, !.max_price = price] :
        seats \in {None, Some(0), Some(2)}, price \in {None, Some(0), Some(25)} }

DistanceSortSearches ==
    { [BaseSearch EXCEPT !.sort_by = Some("distance"), !.from_lat = lat,
                         !.from_lng = lng, !.resolve_aliases = ra] :
        lat \in {None, Some(1)}, lng \in {None, Some(Lng)}, ra \in BOOLEAN }

SearchInputs == GeoSearches \cup LimitSearches \cup FilterSearches \cup DistanceSortSearches

InitSearch == InitStore(FilterRides) /\ InitSort

NextSearch ==
    \/ \E u \in Users, data \in SearchInputs :
          /\ calls.search < MaxFilterSearches
          /\ SearchStart(1, u, data, now)
    \/ LogStep(1)
    \/ Tick

SpecSearch == InitSearch /\ [][NextSearch]_vars

\* Values of rides.popularity_score, in hundredths: the popularity job
\* stores sums of up to 50 + 30 + 20 + 10 points.
PopularityValues == {0, 2000, 2001, 8000, 10000, 11000}

\* The queries of the scored pairs.
RelevanceParams ==
    { SearchParams([BaseSearch EXCEPT !.from_lat = Some(1), !.from_lng = Some(Lng),
                       !.max_price = price, !.sort_by = sort_by], None) :
        price \in {None, Some(40)}, sort_by \in {None, Some("newest")} }

\* Two rides that differ in popularity_score only, scored for one query at
\* one reading of the clock, in query order.
RelevancePairs(sp) ==
    { << ScoreRide([RideRow(1, driver, lat, 20, 2, departure, "available")
                       EXCEPT !.popularity_score = a], sp, 0),
         ScoreRide([RideRow(2, driver, lat, 20, 2, departure, "available")
                       EXCEPT !.popularity_score = b], sp, 0) >> :
        a \in PopularityValues, b \in PopularityValues, driver \in Users,
        lat \in {None, Some(1)}, departure \in {1, 50} }

\* sort_rides_by_criteria applied to scored pairs under the relevance
\* branch, named or taken by default.
InitRelevance ==
    /\ InitStore(<<>>)
    /\ \E sp \in RelevanceParams : \E pair \in RelevancePairs(sp) :
          sortIn = [cands |-> pair, sort_by |-> sp.sort_by, sp |-> sp]
    /\ sortOut = NoSort

SpecRelevance == InitRelevance /\ [][SortRun]_vars

\* A popular_routes row of the route X -> Y as earlier searches and ride
\* statistics left it: its score is the one computed at its last update.
SeedRoute(searches, ride_count) ==
    LET row == [id |-> 0, from_location |-> LocX, to_location |-> LocY,
                search_count |-> searches, ride_count |-> ride_count,
                avg_price |-> IF ride_count = 0 THEN None ELSE Some(30 * AvgScale),
                popularity_score |-> 100, updated_at |-> Some(0)]
    IN  IF searches = 1 /\ ride_count = 0 THEN row
        ELSE [row EXCEPT !.popularity_score = calculate_route_popularity_score(row, 0)]

\* Search counts below and at the ceiling of the search-volume term.
SeedSearchCounts == {1, 98, 998, 9998}

\* Ride counts below and at the ceiling of the ride-count term.
SeedRideCounts == {0, 5, 6}

\* The seeded store with one of the given popular_routes tables.
InitRoutes(routeTables) ==
    /\ InitSort
    /\ now = 0
    /\ rides = SeedRides
    /\ rideRequests = {}
    /\ messages = {}
    /\ searchHistory = {}
    /\ popularRoutes \in routeTables
    /\ nextId = Len(SeedRides) + 1
    /\ pc = [p \in Procs |-> "idle"]
    /\ loc = [p \in Procs |-> NoLoc]
    /\ resp = [p \in Procs |-> NoResp]
    /\ logged = [k \in {} |-> 0]
    /\ calls = [search |-> 0, offer |-> 0, request |-> 0, stats |-> 0]

InitPopularity ==
    InitRoutes({{}} \cup { {SeedRoute(s, rc)} :
                             s \in SeedSearchCounts, rc \in SeedRideCounts })

\* Searches of the route and its ride statistics, one call at a time, as
\* the clock advances.
NextPopularity ==
    \/ SearchStart(1, "u1", SearchData(Some(LocX), Some(LocY)), now)
    \/ LogStep(1)
    \/ StatsRead(1, LocX, LocY, 30)
    \/ StatsCommit(1)
    \/ Tick

SpecPopularity == InitPopularity /\ [][NextPopularity]_vars

\* A complete offer_ride payload with the seats sent and, when given, a
\* popularity_score key.
OfferPayload(seats, score) ==
    [start_location |-> Some(LocX), end_location |-> Some(LocY),
     start_lat |-> Some(Some(1)), start_lng |-> Some(Some(Lng)),
     departure_time |-> Some(50), available_seats |-> Some(seats),
     price_per_seat |-> Some(30), status |-> None, popularity_score |-> score]

\* An update_ride payload: the keys it holds.
UpdatePayload(seats, status, score) ==
    [available_seats |-> seats, status |-> status, popularity_score |-> score]

\* The seat counts a client sends.
SeatInputs == {-1, 2}

\* The request ids a client names: the stored ones and one that is not.
RequestIdInputs == {r.id : r \in rideRequests} \cup {9}

\* The driver's and the rider's operations on the seeded store, one
\* request at a time, and the popularity job.
NextDriver ==
    \/ \E seats \in SeatInputs, score \in {None, Some(9900)} :
          OfferRide(1, "u1", OfferPayload(seats, score))
    \/ \E u \in Users, ride_id \in {1, 9}, seats \in {None, Some(-1)},
          score \in {None, Some(9900)} :
          update_ride(1, u, ride_id, UpdatePayload(seats, None, score))
    \/ \E u \in Users : RequestCheck(1, u, RequestData(Some(1), TRUE))
    \/ RequestCommit(1)
    \/ \E u \in Users, request_id \in RequestIdInputs :
          \/ accept_ride_request(1, u, request_id)
          \/ reject_ride_request(1, u, request_id)
    \/ /\ calls.search < MaxFilterSearches
       /\ SearchStart(1, "u2", BaseSearch, now)
    \/ LogStep(1)
    \/ CalculatePopularityScores

SpecDriver == InitRides /\ [][NextDriver]_vars

\* The rides serialize_search_ride is checked on: either driver's, with and
\* without seats, in each status.
SerializedRides ==
    { RideRow(1, driver, Some(1), 20, seats, 50, status) :
        driver \in Users, seats \in {0, 2},
        status \in {"available", "scheduled", "full"} }

\* A stored request of a rider for a ride.
RequestRow(id, rider, ride_id, status) ==
    [id |-> id, rider_id |-> rider, ride_id |-> ride_id, status |-> status,
     use_driver_pickup |-> TRUE]

\* The request tables it is checked on: empty, one request for the ride in
\* each status by either rider, a request for another ride, and two
\* requests of one rider for the ride.
RequestTables ==
    {{}} \cup { {RequestRow(3, rider, ride_id, status)} :
                rider \in Users, ride_id \in {1, 2},
                status \in {"pending", "accepted", "rejected"} }
         \cup { {RequestRow(3, rider, 1, "rejected"), RequestRow(5, rider, 1, "pending")} :
                rider \in Users }

\* serialize_search_ride applied to every call of the bounded input sets.
InitSerialize ==
    /\ InitStore(<<>>)
    /\ \E ride \in SerializedRides, me \in Users, requests \in RequestTables :
          sortIn = [ride |-> ride, user |-> me, requests |-> requests,
                    sp |-> SearchParams(BaseSearch, None)]
    /\ sortOut = NoSort

SerializeRun ==
    /\ ~sortOut.done
    /\ sortOut' = [raised |-> FALSE,
                   list |-> << serialize_search_ride(sortIn.ride, sortIn.user, sortIn.sp,
                                                     sortIn.requests, now) >>,
                   done |-> TRUE]
    /\ UNCHANGED <<now, storeVars, pc, loc, resp, logged, calls, sortIn>>

SpecSerialize == InitSerialize /\ [][SerializeRun]_vars

AliasRow(id, canonical, alias, lat, popularity) ==
    [id |-> id, canonical_name |-> canonical, alias_name |-> alias,
     lat |-> Some(lat), lng |-> Some(Lng), popularity |-> popularity]

\* Alias rows: two places known as X, and three places whose names hold
\* "a", two of them equally popular.
AliasRows ==
    { AliasRow(1, LocX, LocX, 1, 5),
      AliasRow(2, <<"Z">>, LocX, 5, 5),
      AliasRow(3, <<"a", "b">>, <<"a", "b">>, 2, 3),
      AliasRow(4, <<"a", "c">>, <<"a", "c">>, 3, 3),
      AliasRow(5, <<"a", "d">>, <<"a", "d">>, 4, 1) }

\* resolve_location_aliases called repeatedly with one text on one alias
\* table.
InitResolve ==
    /\ InitStore(<<>>)
    /\ \E aliases \in SUBSET AliasRows, text \in {LocX, <<"a">>, <<"Z">>} :
          sortIn = [text |-> text, aliases |-> aliases]
    /\ sortOut = NoSort

ResolveCall ==
    /\ Len(sortOut.list) < MaxResolveCalls
    /\ \E res \in ResolveIn(sortIn.aliases, sortIn.text) :
          sortOut' = [raised |-> FALSE, list |-> Append(sortOut.list, res),
                      done |-> Len(sortOut.list) + 1 = MaxResolveCalls]
    /\ UNCHANGED <<now, storeVars, pc, loc, resp, logged, calls, sortIn>>

SpecResolve == InitResolve /\ [][ResolveCall]_vars

\* Present coordinates on the meridians of the model, the equator and the
\* prime meridian included.
LatInputs == {Some(-2), Some(0), Some(1), Some(3)}

LngInputs == {Some(0), Some(Lng)}

\* haversine_distance applied to a pair of points in both orders and to
\* each point with itself.
InitGeo ==
    /\ InitStore(<<>>)
    /\ \E lat1 \in LatInputs, lon1 \in LngInputs, lat2 \in LatInputs, lon2 \in LngInputs :
          sortIn = [lat1 |-> lat1, lon1 |-> lon1, lat2 |-> lat2, lon2 |-> lon2]
    /\ sortOut = NoSort

GeoRun ==
    /\ ~sortOut.done
    /\ sortOut' =
          [raised |-> FALSE,
           list |-> << haversine_distance(sortIn.lat1, sortIn.lon1, sortIn.lat2, sortIn.lon2),
                       haversine_distance(sortIn.lat2, sortIn.lon2, sortIn.lat1, sortIn.lon1),
                       haversine_distance(sortIn.lat1, sortIn.lon1, sortIn.lat1, sortIn.lon1),
                       haversine_distance(sortIn.lat2, sortIn.lon2, sortIn.lat2, sortIn.lon2) >>,
           done |-> TRUE]
    /\ UNCHANGED <<now, storeVars, pc, loc, resp, logged, calls, sortIn>>

SpecGeo == InitGeo /\ [][GeoRun]_vars

\* A popular_routes row of X -> Y after the postings of the given prices:
\* their number and their arithmetic mean, in units of 1/AvgScale.
PostedRoute(ride_count, avg_price) ==
    [SeedRoute(1, ride_count) EXCEPT !.avg_price = avg_price]

\* The route tables the ride statistics are checked on: no row, a row a
\* search created, and rows after postings of 0, of 30, and of 0 and 30.
PostedRouteTables ==
    { {}, {PostedRoute(0, None)}, {PostedRoute(1, Some(0))},
      {PostedRoute(1, Some(30 * AvgScale))}, {PostedRoute(2, Some(15 * AvgScale))} }

InitRouteStats == InitRoutes(PostedRouteTables)

\* update_route_ride_stats for the postings of a route, and the searches
\* that create its row, one call at a time.
NextRouteStats ==
    \/ \E u \in Users : SearchStart(1, u, SearchData(Some(LocX), Some(LocY)), now)
    \/ LogStep(1)
    \/ \E price \in {0, 30} : StatsRead(1, LocX, LocY, price)
    \/ StatsCommit(1)

SpecRouteStats == InitRouteStats /\ [][NextRouteStats]_vars

---------------------------------------------------------------------------
(* ride_optimizer.py: analyze_route_competition(from_location,             *)
(* to_location, departure_date) over the rides table.                      *)

\* ride_optimizer.py:59-67: the rides of the route that depart on the day
\* of departure_date and are open.
CompetingRides(rideTable, from, to, departure_date) ==
    LET start_of_day == (departure_date \div TicksPerDay) * TicksPerDay
    IN  { i \in 1..Len(rideTable) :
            /\ Contains(rideTable[i].start_location, from)
            /\ Contains(rideTable[i].end_location, to)
            /\ rideTable[i].departure_time >= start_of_day
            /\ rideTable[i].departure_time < start_of_day + TicksPerDay
            /\ rideTable[i].status \in {"available", "scheduled"} }

\* ride_optimizer.py:69-85, 100-102: the level and the count of the answer.
analyze_route_competition(rideTable, from, to, departure_date) ==
    LET n == Cardinality(CompetingRides(rideTable, from, to, departure_date))
    IN  [competition_level |-> IF n = 0 THEN "low"
                               ELSE IF n >= 5 THEN "high"
                               ELSE IF n >= 2 THEN "medium" ELSE "low",
         competing_rides |-> n]

\* n open rides X -> Y departing on day 1, followed by the given others.
CompetitionTable(n, others) ==
    [i \in 1..n |-> RideRow(i, "u1", Some(1), 20, 2, TicksPerDay + 1, "available")]
        \o others

\* Rides that do not compete on day 1: one of the day before, one that is
\* full.
OtherRideLists ==
    { <<>>,
      << RideRow(8, "u2", Some(1), 20, 2, 1, "available") >>,
      << RideRow(9, "u2", Some(1), 20, 2, TicksPerDay + 2, "full") >>,
      << RideRow(8, "u2", Some(1), 20, 2, 1, "available"),
         RideRow(9, "u2", Some(1), 20, 2, TicksPerDay + 2, "full") >> }

\* analyze_route_competition applied to rides tables with 0 to
\* MaxCompetitors competitors, for a time of day 1 and of day 0.
InitCompetition ==
    /\ InitStore(<<>>)
    /\ \E n \in 0..MaxCompetitors, others \in OtherRideLists,
          departure_date \in {1, TicksPerDay, TicksPerDay + 5, 2 * TicksPerDay - 1} :
          sortIn = [from |-> LocX, to |-> LocY, rides |-> CompetitionTable(n, others),
                    departure_date |-> departure_date]
    /\ sortOut = NoSort

CompetitionRun ==
    /\ ~sortOut.done
    /\ sortOut' = [raised |-> FALSE,
                   list |-> << analyze_route_competition(sortIn.rides, sortIn.from,
                                                         sortIn.to, sortIn.departure_date) >>,
                   done |-> TRUE]
    /\ UNCHANGED <<now, storeVars, pc, loc, resp, logged, calls, sortIn>>

SpecCompetition == InitCompetition /\ [][CompetitionRun]_vars

\* Ride requests and the driver's decisions on them, by concurrent workers.
NextDecisions ==
    \E p \in Procs :
        \/ \E u \in Users : RequestCheck(p, u, RequestData(Some(1), TRUE))
        \/ RequestCommit(p)
        \/ \E u \in Users, request_id \in RequestIdInputs :
              \/ accept_ride_request(p, u, request_id)
              \/ reject_ride_request(p, u, request_id)

SpecDecisions == InitRides /\ [][NextDecisions]_vars

\* Ride requests, one at a time, over the store of rides that differ in
\* seats and status.
NextRequestable ==
    \/ \E u \in Users, ride_id \in {None, Some(1), Some(2), Some(3), Some(4), Some(9)},
          own_pickup \in BOOLEAN :
          RequestCheck(1, u, RequestData(ride_id, own_pickup))
    \/ RequestCommit(1)

SpecRequestable == InitSearch /\ [][NextRequestable]_vars

---------------------------------------------------------------------------
(* Properties.                                                             *)

LogPhases == {"log_sh", "log_pr", "log_commit"}

RECURSIVE SumOver(_, _, _, _)
SumOver(users, counter, from, to) ==
    IF users = {} THEN 0
    ELSE LET u == CHOOSE x \in users : TRUE
         IN  Counted(counter, <<u, from, to>>) + SumOver(users \ {u}, counter, from, to)

\* C1: at most one RideRequest row exists per (rider, ride) pair, in every
\* reachable state, also when send_ride_request calls of one rider for one
\* ride interleave.
C1_OneRequestPerRiderAndRide ==
    \A r1, r2 \in rideRequests :
        (r1.rider_id = r2.rider_id /\ r1.ride_id = r2.ride_id) => r1.id = r2.id

\* C2: once no search is inside log_search_analytics, every search_history
\* row of (user, X, Y) counts exactly the logged searches of that user and
\* every popular_routes row of (X, Y) exactly the logged searches of all
\* users: no increment is lost.
C2_NoIncrementLost ==
    (\A p \in Procs : pc[p] \notin LogPhases) =>
        /\ \A r \in searchHistory :
              r.search_count =
                  Counted(logged, <<r.user_id, r.from_location, r.to_location>>)
        /\ \A r \in popularRoutes :
              r.search_count = SumOver(Users, logged, r.from_location, r.to_location)

\* C3: from one state to the next no search_history.search_count, no
\* popular_routes.search_count and no popular_routes.ride_count decreases.
C3_CountsNeverDecrease ==
    [][ /\ \A r \in searchHistory : \A r2 \in searchHistory' :
              r2.id = r.id => r2.search_count >= r.search_count
        /\ \A r \in popularRoutes : \A r2 \in popularRoutes' :
              r2.id = r.id => /\ r2.search_count >= r.search_count
                              /\ r2.ride_count >= r.ride_count ]_vars

\* C4: there is at most one search_history row per (user, from, to) and at
\* most one popular_routes row per (from, to), in every reachable state.
C4_OneRowPerKey ==
    /\ \A r1, r2 \in searchHistory :
          (r1.user_id = r2.user_id /\ RouteKey(r1) = RouteKey(r2)) => r1.id = r2.id
    /\ \A r1, r2 \in popularRoutes : RouteKey(r1) = RouteKey(r2) => r1.id = r2.id

\* C5: the step that answers an offer_ride call with a complete payload on
\* route (X, Y) leaves a popular_routes row of (X, Y) whose ride_count is
\* one more than before and whose avg_price is (oldAvg*(n-1) + price)/n, or
\* a new row with ride_count 1 and the ride's price when the route had none.
C5_OfferRideUpsertsRoute ==
    [][ \A p \in Procs :
          (resp'[p] # resp[p] /\ resp'[p].op = "offer_ride"
             /\ validate_ride_payload(resp'[p].data)) =>
          LET data == resp'[p].data
              price == Val(data.price_per_seat) * AvgScale
          IN  \E r2 \in popularRoutes' :
                /\ RouteKey(r2) = <<Val(data.start_location), Val(data.end_location)>>
                /\ IF \E r \in popularRoutes : r.id = r2.id
                   THEN LET r == CHOOSE x \in popularRoutes : x.id = r2.id
                        IN  /\ r2.ride_count = r.ride_count + 1
                            /\ r2.avg_price =
                                  IF IsNone(r.avg_price) THEN Some(price)
                                  ELSE Some((Val(r.avg_price) * r.ride_count + price)
                                            \div r2.ride_count)
                   ELSE /\ r2.ride_count = 1
                        /\ r2.avg_price = Some(price) ]_vars

\* C6: a step that changes the popularity_score of the popular_routes row
\* of (X, Y) changes the popularity sub-score calculate_ride_relevance
\* computes for every ride on (X, Y).
C6_RoutePopularityReachesRides ==
    [][ \A r \in popularRoutes : \A r2 \in popularRoutes' :
          (r2.id = r.id /\ r2.popularity_score # r.popularity_score) =>
              \A i \in 1..Len(rides) :
                  RouteKey(r) = <<rides[i].start_location, rides[i].end_location>>
                      => PopularitySub(rides'[i]) # PopularitySub(rides[i]) ]_vars

\* C7: the answer to a valid advanced search is 200 with the ride list the
\* search pipeline computes for the request, whether log_search_analytics
\* succeeded or failed at any of its steps.
C7_AnalyticsFailureNotSurfaced ==
    \A p \in Procs :
        (resp[p].op = "search" /\ SearchIsValid(resp[p].data)) =>
            /\ resp[p].status = 200
            /\ resp[p].rides =
                  SearchPipeline(resp[p].user, SearchParams(resp[p].data, None),
                                 rides, rideRequests, now, now).results

C7_Witness ==
    \E p \in Procs :
        /\ resp[p].op = "search"
        /\ resp[p].status = 200
        /\ ~resp[p].log_result
        /\ Len(resp[p].rides) = 2
        /\ popularRoutes # {}

\* A text the client left blank: absent, empty or whitespace only.
IsBlank(field) ==
    field = <<>> \/ \A i \in 1..Len(field[1]) : field[1][i] = Space

BlankSearch(data) == IsBlank(data.from) \/ IsBlank(data.to)

\* C8: an advanced search whose 'from' or 'to' is blank is answered 400 in
\* one step that starts no search and leaves search_history and
\* popular_routes as they are; no worker logs analytics for such a search.
C8_BlankSearchRejected ==
    [][ \A p \in Procs :
          /\ (pc'[p] \in LogPhases \cup {"respond"}) => ~BlankSearch(loc'[p].data)
          /\ (resp'[p] # resp[p] /\ resp'[p].op = "search"
                /\ BlankSearch(resp'[p].data)) =>
                 /\ resp'[p].status = 400
                 /\ pc[p] = "idle" /\ pc'[p] = "idle"
                 /\ calls' = calls
                 /\ searchHistory' = searchHistory
                 /\ popularRoutes' = popularRoutes ]_vars

C8_Witness ==
    \E p \in Procs :
        /\ resp[p].op = "search"
        /\ resp[p].status = 400
        /\ resp[p].data.from = Some(<<Space>>)
        /\ popularRoutes # {}
        /\ searchHistory # {}

\* C9: the relevance_score reported for a ride of a search response is the
\* score the ride was ranked with.
C9_ReportedScoreIsRankingScore ==
    \A p \in Procs :
        pc[p] \in LogPhases \cup {"respond"} =>
            \A i \in 1..Len(loc[p].results) :
                loc[p].results[i].relevance_score =
                    loc[p].rides_with_scores[i].relevance_score

\* s is a rearrangement of t.
IsPermutation(s, t) ==
    /\ Len(s) = Len(t)
    /\ \E f \in [1..Len(s) -> 1..Len(s)] :
          /\ \A i, j \in 1..Len(s) : i # j => f[i] # f[j]
          /\ \A i \in 1..Len(s) : s[i] = t[f[i]]

PositionIn(s, e) == CHOOSE i \in 1..Len(s) : s[i] = e

\* C10: for every candidate list and strategy name sort_rides_by_criteria
\* returns a permutation of its input in which candidates of equal sort key
\* keep their input order.
C10_SortIsStablePermutation ==
    sortOut.done =>
        LET branch == SortBranch(sortIn.sort_by, sortIn.sp)
        IN  /\ ~sortOut.raised
            /\ IsPermutation(sortOut.list, sortIn.cands)
            /\ \A i, j \in 1..Len(sortIn.cands) :
                  (i < j /\ SortKey(sortIn.cands[i], branch)
                            = SortKey(sortIn.cands[j], branch))
                      => PositionIn(sortOut.list, sortIn.cands[i])
                            < PositionIn(sortOut.list, sortIn.cands[j])


\* The search parameters of an answered request; the alias table of the
\* model resolves a text to at most one row.
AnsweredParams(r) ==
    SearchParams(r.data,
                 IF r.data.resolve_aliases
                 THEN CHOOSE res \in ResolveChoices(Strip(GetText(r.data.from))) : TRUE
                 ELSE None)

RideOf(id) == CHOOSE r \in RideById(id) : TRUE

Answered(p) == resp[p].op = "search" /\ resp[p].status = 200

\* C11: in every answer to an advanced search with an origin (both
\* coordinates given or backfilled, 0 included), every ride has start
\* coordinates and lies within max_distance * 1.609344 km of the origin;
\* without an origin, a ride that passes the filters is not left out for
\* lacking start coordinates.
C11_ResultsWithinRadius ==
    \A p \in Procs :
        Answered(p) =>
            LET sp == AnsweredParams(resp[p])
                listed == {resp[p].rides[i].ride_id : i \in 1..Len(resp[p].rides)}
            IN  IF sp.from_lat # None /\ sp.from_lng # None
                THEN \A id \in listed :
                        /\ RideOf(id).start_lat # None /\ RideOf(id).start_lng # None
                        /\ KmPerLatUnit * Abs(Val(RideOf(id).start_lat) - Val(sp.from_lat))
                              * 1000000 <= sp.max_distance * 1609344
                ELSE \A i \in 1..Len(rides) :
                        (rides[i].start_lat = None /\ RideFilter(rides[i], sp, now)
                           /\ Len(rides) <= sp.limit)
                            => rides[i].id \in listed


\* C12: the answer to an advanced search holds at most min(limit, 100)
\* rides, for every integer limit of the request (default 50): none for a
\* limit of zero or less, and never more than 100.
C12_LimitRespected ==
    \A p \in Procs :
        Answered(p) =>
            LET limit == IF resp[p].data.limit = None THEN 50 ELSE Val(resp[p].data.limit)
            IN  /\ Len(resp[p].rides) <= Max(0, Min(limit, 100))
                /\ Len(resp[p].rides) <= 100


\* C13: every ride an advanced search selects is available or scheduled,
\* has at least min_seats seats (default 1), departs no earlier than 30
\* minutes before the query, and costs at most max_price whenever the
\* request carries a max_price (0 included).
C13_ResultsPassFilters ==
    [][ \A p \in Procs :
          (pc[p] = "idle" /\ pc'[p] = "log_sh") =>
             LET data == loc'[p].data
                 min_seats == IF data.min_seats = None THEN 1 ELSE Val(data.min_seats)
             IN  \A i \in 1..Len(loc'[p].results) :
                    LET ride == RideOf(loc'[p].results[i].ride_id)
                    IN  /\ ride.status \in {"available", "scheduled"}
                        /\ ride.available_seats >= min_seats
                        /\ ride.departure_time * MinutesPerTick
                              >= now * MinutesPerTick - 30
                        /\ data.max_price # None
                              => ride.price_per_seat <= Val(data.max_price) ]_vars


\* The relevance scores of a list of serialized rides do not increase.
DescendingRelevance(list) ==
    \A i, j \in 1..Len(list) : i < j => list[i].relevance_score >= list[j].relevance_score

\* C14: an advanced search with sort_by = 'distance' whose origin lacks
\* from_lat or from_lng after the alias backfill is answered 200 with the
\* rides in descending order of relevance_score.
C14_DistanceSortFallsBack ==
    \A p \in Procs :
        (/\ resp[p].op = "search"
         /\ SearchIsValid(resp[p].data)
         /\ resp[p].data.sort_by = Some("distance")
         /\ LET sp == AnsweredParams(resp[p])
            IN  sp.from_lat = None \/ sp.from_lng = None)
        => /\ resp[p].status = 200
           /\ DescendingRelevance(resp[p].rides)


\* The two candidates of a sorted pair, by ride id.
PairCand(id) == CHOOSE c \in {sortIn.cands[1], sortIn.cands[2]} : c.ride.id = id

PendingRoutes ==
    { Val(loc[p].route) : p \in {q \in Procs : /\ pc[q] \in {"log_commit", "stats_commit"}
                                               /\ loc[q].route # None} }

\* C16: every stored PopularRoute.popularity_score is within [0, 100]
\* (in hundredths), and in every score being computed the search-volume
\* term is at most 60, the ride-count term at most 30 and the recency bonus
\* within [0, 10] (in units of 1/10000).
C16_RoutePopularityBounded ==
    /\ \A r \in popularRoutes : r.popularity_score \in 0..10000
    /\ \A r \in PendingRoutes :
          /\ SearchVolumeScore(r) \in 0..600000
          /\ RideCountScore(r) \in 0..300000
          /\ RecencyBonus(r, now) \in 0..100000
          /\ r.popularity_score \in 0..10000

\* A route searched more than a thousand times and holding six rides or
\* more has been rescored by a search: every term is at its ceiling.
C16_Witness ==
    \E r \in popularRoutes :
        /\ r.search_count >= 9999
        /\ r.ride_count >= 6
        /\ r.popularity_score = 10000
        /\ \E p \in Procs : resp[p].op = "search" /\ resp[p].log_result


C18_PopularityNeverHandSet ==
    [][ /\ \A i \in 1..Len(rides') :
              IF i <= Len(rides)
              THEN rides'[i].popularity_score # rides[i].popularity_score
                      => /\ rides'[i].popularity_score
                               = RideScore(rides[i], rideRequests, now)
                         /\ resp' = resp
              ELSE rides'[i].popularity_score = 0
        /\ \A p \in Procs :
              resp'[p] # resp[p] =>
                  /\ resp'[p].op = "update_ride"
                        => \A ride \in RideById(resp'[p].ride_id) :
                              ApplyRideUpdate(ride, resp'[p].data).popularity_score
                                  = ride.popularity_score
                  /\ (resp'[p].op = "offer_ride" /\ validate_ride_payload(resp'[p].data))
                        => NewRide(nextId, resp'[p].user, resp'[p].data).popularity_score = 0
                  /\ resp'[p].op \in {"search", "request_ride"} => rides' = rides
        /\ pc' # pc => rides' = rides
      ]_vars

\* update_ride has answered a payload naming popularity_score for a stored
\* ride whose score the job had derived, and the score is still the job's.
C18_Witness ==
    \E p \in Procs :
        /\ resp[p].op = "update_ride"
        /\ resp[p].data.popularity_score # None
        /\ \E ride \in RideById(resp[p].ride_id) :
              /\ ride.popularity_score # 0
              /\ ride.popularity_score # Val(resp[p].data.popularity_score)
              /\ ride.popularity_score = RideScore(ride, rideRequests, now)


\* The driver of the ride a stored request is for.
OwnerOf(req) == (CHOOSE ride \in RideById(req.ride_id) : TRUE).driver_id

Decisions == {"accept_ride_request", "reject_ride_request"}

\* C19: the status of a stored RideRequest changes only in a step in which
\* accept_ride_request or reject_ride_request answers the driver owning the
\* request's ride; a decision called by anyone else on a stored request is
\* answered 403 and leaves the requests as they were.
C19_OnlyOwnerDecides ==
    [][ /\ \A r \in rideRequests : \A r2 \in rideRequests' :
              (r2.id = r.id /\ r2.status # r.status)
                  => \E p \in Procs :
                        /\ resp'[p] # resp[p]
                        /\ resp'[p].op \in Decisions
                        /\ resp'[p].request_id = r.id
                        /\ resp'[p].user = OwnerOf(r)
        /\ \A p \in Procs :
              (/\ resp'[p] # resp[p]
               /\ resp'[p].op \in Decisions
               /\ \E r \in RequestById(resp'[p].request_id) :
                     OwnerOf(r) # resp'[p].user)
                  => /\ resp'[p].status = 403
                     /\ rideRequests' = rideRequests
      ]_vars


\* C20: the can_request flag of a serialized ride is true exactly when the
\* ride is not the caller's own, the caller has no request for it in any
\* status, it has a seat left and its status is not 'full'.
C20_CanRequestIff ==
    sortOut.done =>
        LET ride == sortIn.ride
            me == sortIn.user
        IN  sortOut.list[1].can_request
                <=> /\ ride.driver_id # me
                    /\ ~\E r \in sortIn.requests : r.rider_id = me /\ r.ride_id = ride.id
                    /\ ride.available_seats > 0
                    /\ ride.status # "full"

\* Another driver's available ride with seats, refused to a caller whose
\* only request for it was rejected.
C20_Witness ==
    /\ sortOut.done
    /\ sortIn.ride.driver_id # sortIn.user
    /\ sortIn.ride.available_seats > 0
    /\ sortIn.ride.status = "available"
    /\ sortIn.requests = {RequestRow(3, sortIn.user, sortIn.ride.id, "rejected")}
    /\ ~sortOut.list[1].can_request


\* C21: the calls of resolve_location_aliases with one text on an unchanged
\* alias table all return the same result.
C21_ResolveDeterministic ==
    \A i, j \in 1..Len(sortOut.list) : sortOut.list[i] = sortOut.list[j]


\* C22: for every pair of present coordinates a, b, zero latitudes and
\* longitudes included, haversine_distance(a, b) = haversine_distance(b, a)
\* and haversine_distance(a, a) = haversine_distance(b, b) = 0.
C22_DistanceSymmetricAndZero ==
    sortOut.done =>
        /\ sortOut.list[1] = sortOut.list[2]
        /\ sortOut.list[3] = Km(0)
        /\ sortOut.list[4] = Km(0)


\* C23: when log_search_analytics commits, the popularity_score of the
\* searched route's row, created or updated, is the value of
\* calculate_route_popularity_score on the row's stored search_count,
\* ride_count and updated_at.
C23_LoggedScoreIsFormula ==
    [][ \A p \in Procs :
            (pc[p] = "log_commit" /\ pc'[p] = "respond" /\ loc'[p].log_result)
                => \A r \in popularRoutes' :
                      (r.from_location = loc[p].sp.from /\ r.to_location = loc[p].sp.to)
                          => r.popularity_score
                                = calculate_route_popularity_score(r, now')
      ]_vars


\* avg_price * ride_count of a popular_routes row, in units of 1/AvgScale:
\* the sum of the prices posted so far.
PostedTotal(r) == IF r.avg_price = None THEN 0 ELSE Val(r.avg_price) * r.ride_count

\* C24: every update_route_ride_stats call that commits adds its price to
\* avg_price * ride_count of the route's row, so that the product stays the
\* sum of the posted prices, prices of 0 and rows created by a search
\* included.
C24_AvgPriceIsMean ==
    [][ \A p \in Procs :
            (pc[p] = "stats_commit" /\ pc'[p] = "idle")
                => \A r \in popularRoutes : \A r2 \in popularRoutes' :
                      (r2.id = r.id /\ r.id = Val(loc[p].route_read).id)
                          => PostedTotal(r2)
                                = PostedTotal(r) + loc[p].price_per_seat * AvgScale
      ]_vars


\* The driver rating a candidate sorts by, a missing one counting as 0.
RatingOrZero(c) ==
    LET rating == Profile(c.ride.driver_id).driver_rating
    IN  IF rating = None THEN 0 ELSE Val(rating)

\* C25: sort_rides_by_criteria returns a list for every candidate list;
\* under 'distance' with an origin latitude the candidates without a
\* distance follow all those that have one, and under 'driver_rating' the
\* list descends by rating, a missing rating counting as 0.
C25_MissingKeysSortLast ==
    sortOut.done =>
        /\ ~sortOut.raised
        /\ SortBranch(sortIn.sort_by, sortIn.sp) = "distance"
              => \A i, j \in 1..Len(sortOut.list) :
                    (sortOut.list[i].distance = None /\ sortOut.list[j].distance # None)
                        => j < i
        /\ SortBranch(sortIn.sort_by, sortIn.sp) = "driver_rating"
              => \A i, j \in 1..Len(sortOut.list) :
                    i < j => RatingOrZero(sortOut.list[i]) >= RatingOrZero(sortOut.list[j])


\* C26: analyze_route_competition reports the level low for 0 competing
\* rides of the day, medium for 1 to 4 and high for 5 or more.
C26_CompetitionLevels ==
    sortOut.done =>
        LET n == Cardinality(CompetingRides(sortIn.rides, sortIn.from, sortIn.to,
                                            sortIn.departure_date))
            answer == sortOut.list[1]
        IN  /\ answer.competing_rides = n
            /\ answer.competition_level =
                  (IF n = 0 THEN "low" ELSE IF n <= 4 THEN "medium" ELSE "high")


\* C27: the status of a stored RideRequest changes only from pending to
\* accepted or rejected, and a decision the ride's driver calls on a stored
\* request is answered 200 while the request is pending and 400 once it is
\* decided, whichever worker handles it.
C27_DecidedOnce ==
    [][ /\ \A r \in rideRequests : \A r2 \in rideRequests' :
              (r2.id = r.id /\ r2.status # r.status)
                  => r.status = "pending" /\ r2.status \in {"accepted", "rejected"}
        /\ \A p \in Procs :
              (resp'[p] # resp[p] /\ resp'[p].op \in Decisions)
                  => \A r \in RequestById(resp'[p].request_id) :
                        OwnerOf(r) = resp'[p].user
                            => resp'[p].status = (IF r.status = "pending" THEN 200 ELSE 400)
      ]_vars


\* The search_count a commit writes for a row it read, 1 for a new row.
CountAfter(read) == IF read = None THEN 1 ELSE Val(read).search_count + 1

\* C28: a call of log_search_analytics that returns True leaves a
\* search_history row of the user and route with the count and result
\* count of this search and a popular_routes row of the route with its
\* count, both written by the one commit; every other step of the call,
\* the failure at any point included, leaves both tables as they were.
C28_LoggingIsAtomic ==
    [][ \A p \in Procs :
            pc'[p] # pc[p] /\ pc[p] \in {"log_sh", "log_pr", "log_commit"} =>
                IF pc[p] = "log_commit" /\ loc'[p].log_result
                THEN /\ \E h \in searchHistory' :
                           /\ h.user_id = loc[p].user
                           /\ h.from_location = loc[p].sp.from
                           /\ h.to_location = loc[p].sp.to
                           /\ h.search_count = CountAfter(loc[p].history_read)
                           /\ h.results_count = Len(loc[p].results)
                     /\ \E r \in popularRoutes' :
                           /\ r.from_location = loc[p].sp.from
                           /\ r.to_location = loc[p].sp.to
                           /\ r.search_count = CountAfter(loc[p].route_read)
                ELSE searchHistory' = searchHistory /\ popularRoutes' = popularRoutes
      ]_vars

\* A logging that failed after it had read and updated both rows in its
\* session: the stored rows still hold the counts it read.
C28_Witness ==
    \E p \in Procs :
        /\ pc[p] = "respond"
        /\ ~loc[p].log_result
        /\ loc[p].history # None
        /\ loc[p].route # None
        /\ Val(loc[p].history_read) \in searchHistory
        /\ Val(loc[p].route_read) \in popularRoutes


RECURSIVE SumCounts(_)
SumCounts(rows) ==
    IF rows = {} THEN 0
    ELSE LET r == CHOOSE x \in rows : TRUE
         IN  r.search_count + SumCounts(rows \ {r})

\* C29: while no search is inside log_search_analytics, the search_count
\* of every popular_routes row equals the sum of the search_counts of the
\* search_history rows of its route.
C29_RouteCountIsSumOfHistories ==
    (\A p \in Procs : pc[p] \notin LogPhases) =>
        \A r \in popularRoutes :
            r.search_count =
                SumCounts({h \in searchHistory : /\ h.from_location = r.from_location
                                                 /\ h.to_location = r.to_location})

\* The can_request flag of serializers.py:55 for a rider, a ride and the
\* stored requests.
CanRequest(me, ride, requests) ==
    /\ ride.driver_id # me
    /\ ~\E r \in requests : r.rider_id = me /\ r.ride_id = ride.id
    /\ ride.available_seats > 0
    /\ ride.status # "full"

\* C30: every step that stores a RideRequest stores it for a ride the rider
\* could request (not the rider's own, no request of the rider yet, seats
\* left, status not 'full'), and a step that stores none stores no Message.
C30_RequestsOnlyRequestable ==
    [][ /\ \A q \in rideRequests' \ rideRequests :
              \E ride \in RideById(q.ride_id) :
                  CanRequest(q.rider_id, ride, rideRequests)
        /\ (rideRequests' = rideRequests => messages' = messages) ]_vars

=============================================================================
